---- MODULE Spec2Model ----
(***************************************************************************)
(* Model of src/app.py: the Streamlit content submission form.             *)
(*                                                                         *)
(* Text is a sequence of atoms.  An atom is a TLA+ string standing for one *)
(* character ("a", "-", "{") or for one indivisible lexeme of a document   *)
(* ("</head>", "https://", "<amp-story-page").  The empty sequence is the  *)
(* empty Python string.  Python's -1 ("not found") is 0 here, because      *)
(* sequences are indexed from 1.                                           *)
(***************************************************************************)
EXTENDS Integers, Sequences, FiniteSets, TLC

(***************************************************************************)
(* Bounds of the model.                                                    *)
(***************************************************************************)
\* longest title handed to generate_slug_and_urls in SpecSlug
MaxTitleLen == 2
\* longest response text handed to extract_json_block in SpecJson
MaxTextLen == 5
\* script reruns of one session in Spec
MaxReruns == 4

(***************************************************************************)
(* str helpers (Python built-ins used by app.py).                          *)
(***************************************************************************)
Whitespace == {" ", "\n"}

RECURSIVE LStrip(_, _)
LStrip(s, chars) ==
    IF s # <<>> /\ Head(s) \in chars THEN LStrip(Tail(s), chars) ELSE s

RECURSIVE RStrip(_, _)
RStrip(s, chars) ==
    IF s # <<>> /\ s[Len(s)] \in chars
    THEN RStrip(SubSeq(s, 1, Len(s) - 1), chars) ELSE s

\* str.strip(chars)
StripChars(s, chars) == RStrip(LStrip(s, chars), chars)

\* str.strip()
Strip(s) == StripChars(s, Whitespace)

\* s[i:].startswith(pat), i counted from 1
MatchAt(s, i, pat) ==
    /\ i >= 1
    /\ i + Len(pat) - 1 <= Len(s)
    /\ \A k \in 1..Len(pat) : s[i + k - 1] = pat[k]

\* str.startswith
StartsWith(s, pat) == MatchAt(s, 1, pat)

Min(S) == CHOOSE x \in S : \A y \in S : x <= y
Max(S) == CHOOSE x \in S : \A y \in S : x >= y

\* the indices at or after i where pat occurs in s
Occurrences(s, pat, i) == {k \in i..(Len(s) - Len(pat) + 1) : MatchAt(s, k, pat)}

\* s.find(pat, i): the first index at or after i where pat occurs, 0 when none
FindFrom(s, pat, i) ==
    LET occ == Occurrences(s, pat, i) IN IF occ = {} THEN 0 ELSE Min(occ)

\* str.find: the first index of pat in s, 0 when there is none
Find(s, pat) == FindFrom(s, pat, 1)

\* pat in s
Contains(s, pat) == Occurrences(s, pat, 1) # {}

\* str.rfind: the last index of pat in s, 0 when there is none
RFind(s, pat) ==
    LET occ == Occurrences(s, pat, 1) IN IF occ = {} THEN 0 ELSE Max(occ)

\* str.replace from index i on: copy up to the next occurrence, replace it, go on
RECURSIVE ReplaceFrom(_, _, _, _)
ReplaceFrom(s, i, pat, rep) ==
    LET j == FindFrom(s, pat, i) IN
    IF j = 0 THEN SubSeq(s, i, Len(s))
    ELSE SubSeq(s, i, j - 1) \o rep \o ReplaceFrom(s, j + Len(pat), pat, rep)

\* str.replace(pat, rep) for a non-empty pat: left to right, non-overlapping
Replace(s, pat, rep) == ReplaceFrom(s, 1, pat, rep)

\* [x for x in s if x in keep]
RECURSIVE Filter(_, _)
Filter(s, keep) ==
    IF s = <<>> THEN <<>>
    ELSE (IF Head(s) \in keep THEN <<Head(s)>> ELSE <<>>) \o Filter(Tail(s), keep)

\* all sequences over alphabet of length at most n
SeqsUpTo(alphabet, n) == UNION {[1..k -> alphabet] : k \in 0..n}

(***************************************************************************)
(* generate_slug_and_urls                                                  *)
(***************************************************************************)
AsciiLowercase ==
    <<"a","b","c","d","e","f","g","h","i","j","k","l","m",
      "n","o","p","q","r","s","t","u","v","w","x","y","z">>

AsciiUppercase ==
    <<"A","B","C","D","E","F","G","H","I","J","K","L","M",
      "N","O","P","Q","R","S","T","U","V","W","X","Y","Z">>

AsciiDigits == <<"0","1","2","3","4","5","6","7","8","9">>

Range(f) == {f[i] : i \in DOMAIN f}

\* str.lower() on one character
LowerChar(c) ==
    IF c \in Range(AsciiUppercase)
    THEN AsciiLowercase[CHOOSE i \in 1..26 : AsciiUppercase[i] = c]
    ELSE c

\* string.ascii_lowercase + string.digits + '-'
SlugChars == Range(AsciiLowercase) \cup Range(AsciiDigits) \cup {"-"}

\* title.lower().replace(" ", "-").replace("_", "-"), filtered, .strip('-')
Slugify(title) ==
    LET lowered  == [i \in 1..Len(title) |-> LowerChar(title[i])]
        hyphened == Replace(Replace(lowered, <<" ">>, <<"-">>), <<"_">>, <<"-">>)
    IN  StripChars(Filter(hyphened, SlugChars), {"-"})

\* string.ascii_letters + string.digits + '_-'
NanoAlphabet == AsciiLowercase \o AsciiUppercase \o AsciiDigits \o <<"_", "-">>

\* k of random.choices(..., k=10)
NanoLen == 10

\* the literal appended to the random characters
NanoMarkerShort == <<"G">>
NanoMarker == <<"_", "G">>

\* random.choices has 64^10 outcomes; the model draws from a sample of them,
\* one per stride n: the i-th character is the one at index n*i + n/2 (mod 64).
SampleStrides == {7, 23}

\* Outcomes of random.choices(NanoAlphabet, k=NanoLen) the model draws from.
RandomChoices ==
    {[i \in 1..NanoLen |-> NanoAlphabet[((n * i + n \div 2) % Len(NanoAlphabet)) + 1]] :
        n \in SampleStrides}

StoriesPage == <<"https://", "suvichaar.org", "/", "stories", "/">>
StoriesHost == <<"https://", "stories.suvichaar.org", "/">>

\* The function, with the outcome of random.choices as its second argument.
generate_slug_and_urls(title, random_chars) ==
    IF title = <<>>
    THEN [raised |-> TRUE, nano |-> <<>>, slug_nano |-> <<>>,
          canurl |-> <<>>, canurl1 |-> <<>>]
    ELSE LET slug == Slugify(title)
             nano == random_chars \o NanoMarker
             slug_nano == slug \o <<"_">> \o nano
         IN  [raised |-> FALSE, nano |-> nano, slug_nano |-> slug_nano,
              canurl |-> StoriesPage \o slug_nano,
              canurl1 |-> StoriesHost \o slug_nano \o <<".html">>]

(***************************************************************************)
(* extract_json_block                                                      *)
(*                                                                         *)
(* Atoms of a response text: "<fence json>" (three backticks and the word  *)
(* json in any case), "<fence>" (three backticks),                         *)
(* "{", "}", whitespace, "d" "k" "t" (one well-formed member each:         *)
(* meta_description, meta_keywords, filter_tags) and "x" (any other text). *)
(***************************************************************************)
FenceOpen == "<fence json>"
\* the pattern's closing ``` also matches the first three characters of ```json
FenceClose == {"<fence>", "<fence json>"}

\* index of the first atom at or after i that is not whitespace (\s*)
RECURSIVE SkipWs(_, _)
SkipWs(text, i) ==
    IF i <= Len(text) /\ text[i] \in Whitespace THEN SkipWs(text, i + 1) ELSE i

\* "```json\s*(\{.*?\})\s*```" anchored at i, group 1 ending at j
FencedAt(text, i, j) ==
    /\ i \in 1..Len(text) /\ text[i] = FenceOpen
    /\ LET b == SkipWs(text, i + 1)
       IN  /\ b <= Len(text) /\ text[b] = "{"
           /\ j \in (b + 1)..Len(text) /\ text[j] = "}"
           /\ LET c == SkipWs(text, j + 1)
              IN  c <= Len(text) /\ text[c] \in FenceClose

\* re.search of the fenced pattern: leftmost start, then the lazy .*? takes the
\* nearest closing brace that lets the rest match. <<>> when there is no match.
FencedSearch(text) ==
    LET starts == {i \in 1..Len(text) : \E j \in 1..Len(text) : FencedAt(text, i, j)}
    IN  IF starts = {} THEN [matched |-> FALSE, group |-> <<>>]
        ELSE LET i == CHOOSE x \in starts : \A y \in starts : x <= y
                 ends == {j \in 1..Len(text) : FencedAt(text, i, j)}
                 j == CHOOSE x \in ends : \A y \in ends : x <= y
             IN  [matched |-> TRUE, group |-> SubSeq(text, SkipWs(text, i + 1), j)]

\* re.search(r"(\{(?:[^{}]|(?1))*\})", text): Python's re has no (?1)
\* subroutine call, so compiling the pattern raises re.error ("unknown
\* extension ?1") whatever the text is.
BraceSearch(text) == [raised |-> TRUE, matched |-> FALSE, group |-> <<>>]

extract_json_block(text) ==
    IF text = <<>> THEN [raised |-> TRUE, error |-> "ValueError", value |-> <<>>]
    ELSE LET m == FencedSearch(text) IN
         IF m.matched THEN [raised |-> FALSE, error |-> "", value |-> Strip(m.group)]
         ELSE LET m2 == BraceSearch(text) IN
              IF m2.raised THEN [raised |-> TRUE, error |-> "re.error", value |-> <<>>]
              ELSE IF m2.matched
                   THEN [raised |-> FALSE, error |-> "", value |-> Strip(m2.group)]
                   ELSE [raised |-> FALSE, error |-> "", value |-> Strip(text)]

(***************************************************************************)
(* generate_metadata                                                       *)
(***************************************************************************)
MemberAtoms == {"d", "k", "t"}

\* json.loads followed by data.get: succeeds on an object of well-formed members
JsonObject(s) ==
    /\ Len(s) >= 2 /\ s[1] = "{" /\ s[Len(s)] = "}"
    /\ \A i \in 2..(Len(s) - 1) : s[i] \in MemberAtoms \cup Whitespace

\* desc[:160]
DescLimit == 160
Truncate(s, n) == SubSeq(s, 1, IF Len(s) < n THEN Len(s) ELSE n)

\* What the service writes for a title (the text itself is the service's choice).
DescFor(title) == <<"desc:">> \o title
KeywordsFor(title) == <<"kw:">> \o title
TagsFor(title) == <<"tags:">> \o title

\* generate_metadata(title), given whether the request succeeds and the text
\* the service answers with.
generate_metadata(title, net_ok, raw) ==
    LET none == [raised |-> TRUE, meta_description |-> <<>>,
                 meta_keywords_csv |-> <<>>, filter_tags_csv |-> <<>>]
    IN  IF ~net_ok THEN none
        ELSE LET x == extract_json_block(raw) IN
             IF x.raised \/ ~JsonObject(x.value) THEN none
             ELSE [raised |-> FALSE,
                   meta_description |->
                       IF "d" \in Range(x.value)
                       THEN Truncate(Strip(DescFor(title)), DescLimit) ELSE <<>>,
                   meta_keywords_csv |->
                       IF "k" \in Range(x.value) THEN KeywordsFor(title) ELSE <<>>,
                   filter_tags_csv |->
                       IF "t" \in Range(x.value) THEN TagsFor(title) ELSE <<>>]

(***************************************************************************)
(* Documents: the template, the uploaded HTML, the composed document.      *)
(***************************************************************************)
\* one st.error / st.warning / st.info / st.success / st.write
Msg(kind, text, detail) == [kind |-> kind, text |-> text, detail |-> detail]

\* st.file_uploader returned None
NoFile == <<"<no file>">>

\* "{{name}}"
Placeholder(name) == <<"{", "{", name, "}", "}">>

\* f"{{{label}}}" of line 338 is "{" + label + "}": one brace on each side
SingleBrace(name) == <<"{", name, "}">>

Quote == "\""
HrefAttr == "href=\""
SrcAttr == "src=\""
ContentAttr == "content=\""

Users == {"Mayank", "Onip", "Naman"}
\* user_mapping
UserProfile(user) == <<"https://", "<profile>", user>>
\* datetime.now(timezone.utc).isoformat(timespec='seconds')
UtcNow == <<"<utc now>">>

MediaHostHttp == <<"http://", "media.suvichaar.org">>
MediaHostHttps == <<"https://", "media.suvichaar.org">>
\* cdn_prefix_media
CdnPrefixMedia == <<"https://", "media.suvichaar.org", "/">>
\* base64.urlsafe_b64encode(json.dumps({bucket, key, edits: resize w x h}))
ResizeDescriptor(label) ==
    IF label = "potraitcoverurl" THEN "<b64 resize 640x853>" ELSE "<b64 resize 300x300>"
\* resize_presets, in the order the loop visits them
ResizeLabels == <<"potraitcoverurl", "msthumbnailcoverurl">>

\* lines 305-316
SubstituteFields(tpl, user, title, desc, keywords, ctype, lang, ptitle, url, url1) ==
    LET t1  == Replace(tpl, Placeholder("user"), <<user>>)
        t2  == Replace(t1, Placeholder("userprofileurl"), UserProfile(user))
        t3  == Replace(t2, Placeholder("publishedtime"), UtcNow)
        t4  == Replace(t3, Placeholder("modifiedtime"), UtcNow)
        t5  == Replace(t4, Placeholder("storytitle"), title)
        t6  == Replace(t5, Placeholder("metadescription"), desc)
        t7  == Replace(t6, Placeholder("metakeywords"), keywords)
        t8  == Replace(t7, Placeholder("contenttype"), <<ctype>>)
        t9  == Replace(t8, Placeholder("lang"), <<lang>>)
        t10 == Replace(t9, Placeholder("pagetitle"), ptitle)
        t11 == Replace(t10, Placeholder("canurl"), url)
    IN  Replace(t11, Placeholder("canurl1"), url1)

\* lines 318-338
SubstituteImages(doc, url) ==
    IF StartsWith(url, MediaHostHttp) \/ StartsWith(url, MediaHostHttps)
    THEN LET d0 == Replace(doc, Placeholder("image0"), url)
             d1 == Replace(d0, SingleBrace(ResizeLabels[1]),
                           CdnPrefixMedia \o <<ResizeDescriptor(ResizeLabels[1])>>)
         IN  Replace(d1, SingleBrace(ResizeLabels[2]),
                     CdnPrefixMedia \o <<ResizeDescriptor(ResizeLabels[2])>>)
    ELSE doc

\* attr + r'\{(https://[^}]+)\}"' matches at i: [^}]+ runs to the first closing
\* brace, which must be followed by the quote
WrappedAt(doc, i, attr) ==
    /\ MatchAt(doc, i, <<attr, "{", "https://">>)
    /\ LET j == FindFrom(doc, <<"}">>, i + 3)
       IN  j > i + 3 /\ MatchAt(doc, j + 1, <<Quote>>)

\* re.sub from index i on: copy up to the next match, rewrite it, go on
RECURSIVE CleanupFrom(_, _, _)
CleanupFrom(doc, i, attr) ==
    LET hits == {k \in i..Len(doc) : WrappedAt(doc, k, attr)} IN
    IF hits = {} THEN SubSeq(doc, i, Len(doc))
    ELSE LET k == Min(hits)
             j == FindFrom(doc, <<"}">>, k + 3)
         IN  SubSeq(doc, i, k - 1) \o <<attr, "https://">> \o SubSeq(doc, k + 3, j - 1)
             \o <<Quote>> \o CleanupFrom(doc, j + 2, attr)

CleanupAttr(doc, attr) == CleanupFrom(doc, 1, attr)

\* lines 340-342
CleanupHrefOnly(doc) == CleanupAttr(doc, HrefAttr)
Cleanup(doc) == CleanupAttr(CleanupAttr(doc, HrefAttr), SrcAttr)

StyleOpen == "<style amp-custom>"
StyleClose == "</style>"
PageOpen == "<amp-story-page"
PageClose == "</amp-story-page>"

\* line 350: (<style\s+amp-custom[^>]*>.*?</style>), the first opening tag that
\* has a closing tag after it, through the nearest closing tag
ExtractStyle(raw_html) ==
    LET opens == {i \in 1..Len(raw_html) :
                    /\ raw_html[i] = StyleOpen
                    /\ \E j \in (i + 1)..Len(raw_html) : raw_html[j] = StyleClose}
    IN  IF opens = {} THEN <<>>
        ELSE LET i == CHOOSE x \in opens : \A y \in opens : x <= y
                 j == CHOOSE x \in (i + 1)..Len(raw_html) :
                        /\ raw_html[x] = StyleClose
                        /\ \A y \in (i + 1)..(x - 1) : raw_html[y] # StyleClose
             IN  SubSeq(raw_html, i, j)

\* lines 356-359: raw_html[start:end + len("</amp-story-page>")]
ExtractAmpStory(raw_html) ==
    LET start == Find(raw_html, <<PageOpen>>)
        end == RFind(raw_html, <<PageClose>>)
    IN  IF start # 0 /\ end # 0 THEN SubSeq(raw_html, start, end) ELSE <<>>

\* line 358: whether the script takes the branch that assigns the block
StoryBoundsFound(raw_html) ==
    Find(raw_html, <<PageOpen>>) # 0 /\ RFind(raw_html, <<PageClose>>) # 0

HeadClose == "</head>"
\* lines 363-368
InsertStyle(doc, style) ==
    LET pos == Find(doc, <<HeadClose>>)
    IN  IF style # <<>> /\ pos # 0
        THEN SubSeq(doc, 1, pos - 1) \o <<"\n">> \o style \o <<"\n">>
             \o SubSeq(doc, pos, Len(doc))
        ELSE doc

AnalyticsOpen == "<amp-story-auto-analytics gtag-id=G-2D5GXVRK1E>"
AnalyticsClose == "</amp-story-auto-analytics>"
\* analytics_tag
AnalyticsTag == <<AnalyticsOpen, AnalyticsClose>>
StoryOpen == "<amp-story standalone>"
\* the tags r"<amp-story\b[^>]*>" matches: \b also holds before a hyphen
AmpStoryOpenings == {StoryOpen, AnalyticsOpen}

\* line 373: the end of the first match, 0 when there is none
StoryInsertPos(doc) ==
    LET hits == {i \in 1..Len(doc) : doc[i] \in AmpStoryOpenings}
    IN  IF hits = {} THEN 0 ELSE CHOOSE x \in hits : \A y \in hits : x <= y

\* line 375
StoryInsertable(doc) == StoryInsertPos(doc) # 0 /\ Contains(doc, AnalyticsTag)

\* lines 372-383
InsertStory(doc, story) ==
    IF story # <<>> /\ StoryInsertable(doc)
    THEN LET pos == StoryInsertPos(doc)
         IN  SubSeq(doc, 1, pos) \o <<"\n", "\n">> \o story \o <<"\n", "\n">>
             \o SubSeq(doc, pos + 1, Len(doc))
    ELSE doc

\* st.info / st.warning of lines 354, 361, 370, 385, in that order
SpliceMessages(file, doc, style, story) ==
    (IF file # NoFile /\ style = <<>>
     THEN <<Msg("info", "No <style amp-custom> block found", <<>>)>> ELSE <<>>)
    \o (IF file # NoFile /\ ~StoryBoundsFound(file)
        THEN <<Msg("warning", "No complete <amp-story> block found", <<>>)>> ELSE <<>>)
    \o (IF style # <<>> /\ Find(doc, <<HeadClose>>) = 0
        THEN <<Msg("warning", "No </head> tag found", <<>>)>> ELSE <<>>)
    \o (IF story # <<>> /\ ~StoryInsertable(InsertStyle(doc, style))
        THEN <<Msg("warning", "Could not find insertion points", <<>>)>> ELSE <<>>)


(***************************************************************************)
(* Image URL handling.                                                     *)
(***************************************************************************)
Schemes == {"https://", "http://"}

\* urlparse(url).path: what follows the scheme and the host
UrlPath(url) ==
    IF url # <<>> /\ url[1] \in Schemes THEN SubSeq(url, 3, Len(url)) ELSE url

\* os.path.basename
Basename(path) == SubSeq(path, RFind(path, <<"/">>) + 1, Len(path))

ExtAtoms == {".jpg", ".jpeg", ".png", ".gif", ".PNG", ".webp"}
\* os.path.splitext(filename)[1].lower()
LowerExt(filename) ==
    IF Len(filename) >= 2 /\ filename[Len(filename)] \in ExtAtoms
    THEN (IF filename[Len(filename)] = ".PNG" THEN ".png" ELSE filename[Len(filename)])
    ELSE ""

AllowedExts == {".jpg", ".jpeg", ".png", ".gif"}
\* lines 255-258
ImageExt(url) ==
    LET ext == LowerExt(Basename(UrlPath(url)))
    IN  IF ext \in AllowedExts THEN ext ELSE ".jpg"

\* "/".join(path.split("/")[2:]): what follows the second slash
PathKey(path) ==
    LET k1 == Find(path, <<"/">>)
        rest1 == SubSeq(path, k1 + 1, Len(path))
        k2 == Find(rest1, <<"/">>)
    IN  IF k1 = 0 \/ k2 = 0 THEN <<>> ELSE SubSeq(rest1, k2 + 1, Len(rest1))

\* s3_prefix (lines 39-44) and cdn_base_url (line 40)
S3Prefix == <<"<s3 prefix>", "/">>
CdnBaseUrl == <<"https://", "<cdn host>", "/">>
DefaultKeyPath == <<"media", "/", "default.png">>
MediaBucket == "<AWS_BUCKET>"
StoriesBucket == "suvichaarstories"

ImageOutcomes == {"ok", "fetch_failed", "store_failed"}

OnImageFailureKeepsUrl(url) ==
    [status |-> "failed", requested |-> TRUE,
     uploaded_url |-> CdnBaseUrl \o S3Prefix \o <<"<uuid4>", ImageExt(url)>>,
     key_path |-> DefaultKeyPath, put |-> {},
     shown |-> <<Msg("warning", "Failed to fetch/upload image", <<>>)>>]
\* lines 278-280: the except branch
OnImageFailure(url) ==
    [status |-> "failed", requested |-> TRUE, uploaded_url |-> <<>>,
     key_path |-> DefaultKeyPath, put |-> {},
     shown |-> <<Msg("warning", "Failed to fetch/upload image", <<>>)>>]

\* lines 254-282, given what requests.get and put_object do
ImageResult(url, outcome) ==
    IF url = <<>>
    THEN [status |-> "absent", requested |-> FALSE, uploaded_url |-> <<>>,
          key_path |-> DefaultKeyPath, put |-> {},
          shown |-> <<Msg("info", "No Image URL provided", <<>>)>>]
    ELSE IF StartsWith(url, StoriesHost)
    THEN [status |-> "reused", requested |-> FALSE, uploaded_url |-> url,
          key_path |-> PathKey(UrlPath(url)), put |-> {}, shown |-> <<>>]
    ELSE LET s3_key == S3Prefix \o <<"<uuid4>", ImageExt(url)>> IN
         IF outcome = "ok"
         THEN [status |-> "uploaded", requested |-> TRUE,
               uploaded_url |-> CdnBaseUrl \o s3_key, key_path |-> s3_key,
               put |-> {[bucket |-> MediaBucket, key |-> s3_key,
                         body |-> <<"<image bytes>">>]},
               shown |-> <<Msg("success", "Image uploaded successfully", <<>>)>>]
         ELSE OnImageFailure(url)

(***************************************************************************)
(* Validation and the metadata record.                                     *)
(***************************************************************************)
Blank(s) == Strip(s) = <<>>

\* lines 221-230
MissingFields(title, desc, keywords, ctype, lang, url, tags, cat, file) ==
    (IF Blank(title) THEN <<"Story Title">> ELSE <<>>)
    \o (IF Blank(desc) THEN <<"Meta Description">> ELSE <<>>)
    \o (IF Blank(keywords) THEN <<"Meta Keywords">> ELSE <<>>)
    \o (IF Blank(<<ctype>>) THEN <<"Content Type">> ELSE <<>>)
    \o (IF Blank(<<lang>>) THEN <<"Language">> ELSE <<>>)
    \o (IF Blank(url) THEN <<"Image URL">> ELSE <<>>)
    \o (IF Blank(tags) THEN <<"Filter Tags">> ELSE <<>>)
    \o (IF Blank(<<cat>>) THEN <<"Category">> ELSE <<>>)
    \o (IF file = NoFile THEN <<"Raw HTML File">> ELSE <<>>)

CategoryNames ==
    <<"Art", "Travel", "Entertainment", "Literature", "Books", "Sports",
      "History", "Culture", "Wildlife", "Spiritual", "Food">>
\* category_mapping
CategoryMapping(cat) == CHOOSE i \in 1..Len(CategoryNames) : CategoryNames[i] = cat

(***************************************************************************)
(* State.                                                                  *)
(***************************************************************************)
VARIABLES
    pc,                        \* where the script is
    \* st.session_state
    last_title, ss_meta_description, ss_meta_keywords, ss_generated_filter_tags,
    \* widgets of the current run
    story_title, meta_description, meta_keywords, tag_input,
    content_type, language, categories, image_url, html_file,
    \* what the current run has shown: st.error, st.warning, st.info, st.success
    msgs,
    \* the text-generation endpoint: requests received, the last answer
    calls, raw, gen_status,
    \* the operator's history in this session
    reruns, entered, changes, prev_title,
    \* extract_json_block applied on its own
    json_out,
    \* templates/masterregex.html
    template_file,
    \* locals of the submit handler
    missing_fields, nano, slug_nano, canurl, canurl1, page_title,
    key_path, uploaded_url, selected_user, html_template,
    extracted_style, extracted_amp_story,
    \* the outside world: object storage, image requests sent, the archive offered
    s3_objects, fetched, zip_file,
    \* how each step of the current submission ended
    status

sessionVars == <<last_title, ss_meta_description, ss_meta_keywords,
                 ss_generated_filter_tags>>
formVars == <<meta_description, meta_keywords, tag_input, content_type, language,
              categories, image_url, html_file>>
genVars == <<calls, raw, gen_status>>
historyVars == <<reruns, entered, changes, prev_title>>

idVars == <<nano, slug_nano, canurl, canurl1, page_title>>
imageVars == <<key_path, uploaded_url>>
composeVars == <<selected_user, html_template, extracted_style, extracted_amp_story>>
worldVars == <<s3_objects, fetched, zip_file>>
submitVars == <<template_file, missing_fields, idVars, imageVars, composeVars,
                worldVars, status>>

vars == <<pc, sessionVars, story_title, formVars, msgs, genVars, historyVars,
          json_out, submitVars>>

Shown(kind, text) == \E i \in 1..Len(msgs) : msgs[i].kind = kind /\ msgs[i].text = text
CountKind(kind) == Cardinality({i \in 1..Len(msgs) : msgs[i].kind = kind})

ContentTypes == {"News", "Article"}
Languages == {"en-US", "hi"}
NoJson == [raised |-> FALSE, error |-> "", value |-> <<>>]

\* lines 153-161: the session defaults, and a form nobody has touched
SessionDefaults ==
    /\ last_title = <<>>
    /\ ss_meta_description = <<>>
    /\ ss_meta_keywords = <<>>
    /\ ss_generated_filter_tags = <<>>

BlankForm ==
    /\ meta_description = <<>> /\ meta_keywords = <<>> /\ tag_input = <<>>
    /\ content_type = "News" /\ language = "en-US" /\ categories = "Art"
    /\ image_url = <<>> /\ html_file = NoFile

NoStatus == [image |-> "none", compose |-> "none", store |-> "none", zip |-> "none"]

\* nothing submitted yet
SubmitIdle ==
    /\ missing_fields = <<>>
    /\ nano = <<>> /\ slug_nano = <<>> /\ canurl = <<>> /\ canurl1 = <<>>
    /\ page_title = <<>>
    /\ key_path = <<>> /\ uploaded_url = <<>>
    /\ selected_user = "" /\ html_template = <<>>
    /\ extracted_style = <<>> /\ extracted_amp_story = <<>>
    /\ s3_objects = {} /\ fetched = {} /\ zip_file = <<>>
    /\ status = NoStatus

NoHistory ==
    /\ calls = 0 /\ raw = <<>> /\ gen_status = "none"
    /\ reruns = 0 /\ entered = {} /\ changes = 0 /\ prev_title = <<>>

(***************************************************************************)
(* The session: the script reruns on every title the operator enters.      *)
(***************************************************************************)
\* titles typed into st.text_input("Story Title")
SessionTitles == {<<>>, <<" ">>, <<"a">>, <<"b">>, <<"a", " ">>}

\* answers of the text-generation endpoint
Responses ==
    { <<>>,
      <<"<fence json>", "\n", "{", "d", "k", "t", "}", "\n", "<fence>">>,
      <<"<fence json>", "{", "d", "}", "<fence>">>,
      <<"<fence json>", "{", "x", "}", "<fence>">>,
      <<"{", "d", "k", "t", "}">>,
      <<"x", "{", "d", "k", "t", "}">>,
      <<"x">> }

Init ==
    /\ pc = "idle"
    /\ SessionDefaults
    /\ story_title = <<>>
    /\ BlankForm
    /\ msgs = <<>>
    /\ NoHistory
    /\ json_out = NoJson
    /\ template_file = <<>>
    /\ SubmitIdle

\* line 164: a rerun starts with the title the operator has typed
EnterTitle(title) ==
    /\ pc = "idle"
    /\ reruns < MaxReruns
    /\ story_title' = title
    /\ msgs' = <<>>
    /\ gen_status' = "none"
    /\ reruns' = reruns + 1
    /\ IF Strip(title) # <<>>
       THEN /\ entered' = entered \cup {title}
            /\ changes' = IF title # prev_title THEN changes + 1 ELSE changes
            /\ prev_title' = title
       ELSE UNCHANGED <<entered, changes, prev_title>>
    /\ pc' = "generate"
    /\ UNCHANGED <<sessionVars, formVars, calls, raw, json_out, submitVars>>

\* line 167
ShouldGenerateUngated(title, last) == Strip(title) # <<>>
ShouldGenerate(title, last) == Strip(title) # <<>> /\ title # last

\* lines 166-176
AutoGenerate ==
    /\ pc = "generate"
    /\ IF ShouldGenerate(story_title, last_title)
       THEN \E net_ok \in BOOLEAN, answer \in Responses :
              LET md == generate_metadata(Strip(story_title), net_ok, answer) IN
              /\ calls' = calls + 1
              /\ raw' = IF net_ok THEN answer ELSE <<>>
              /\ IF md.raised
                 THEN /\ msgs' = Append(msgs, Msg("warning", "Metadata generation failed", <<>>))
                      /\ gen_status' = "failed"
                      /\ UNCHANGED <<ss_meta_description, ss_meta_keywords,
                                     ss_generated_filter_tags>>
                 ELSE /\ ss_meta_description' = md.meta_description
                      /\ ss_meta_keywords' = md.meta_keywords_csv
                      /\ ss_generated_filter_tags' = md.filter_tags_csv
                      /\ gen_status' = "ok"
                      /\ UNCHANGED msgs
              /\ last_title' = story_title
       ELSE UNCHANGED <<sessionVars, msgs, genVars>>
    /\ pc' = "form"
    /\ UNCHANGED <<story_title, formVars, historyVars, json_out, submitVars>>

\* lines 178-217: the form, its fields prefilled from the session; no submit
RenderForm ==
    /\ pc = "form"
    /\ meta_description' = ss_meta_description
    /\ meta_keywords' = ss_meta_keywords
    /\ tag_input' = ss_generated_filter_tags
    /\ pc' = "idle"
    /\ UNCHANGED <<sessionVars, story_title, content_type, language, categories,
                   image_url, html_file, msgs, genVars, historyVars, json_out,
                   submitVars>>

Next ==
    \/ \E title \in SessionTitles : EnterTitle(title)
    \/ AutoGenerate
    \/ RenderForm

Spec == Init /\ [][Next]_vars

(***************************************************************************)
(* extract_json_block on its own.                                          *)
(***************************************************************************)
JsonAlphabet == {"<fence json>", "<fence>", "{", "}", " ", "x"}
Texts == SeqsUpTo(JsonAlphabet, MaxTextLen)

InitJson ==
    /\ pc = "extract"
    /\ SessionDefaults
    /\ story_title = <<>>
    /\ BlankForm
    /\ msgs = <<>>
    /\ calls = 0 /\ gen_status = "none"
    /\ reruns = 0 /\ entered = {} /\ changes = 0 /\ prev_title = <<>>
    /\ raw \in Texts
    /\ json_out = NoJson
    /\ template_file = <<>>
    /\ SubmitIdle

\* line 130
ExtractJson ==
    /\ pc = "extract"
    /\ json_out' = extract_json_block(raw)
    /\ pc' = "extracted"
    /\ UNCHANGED <<sessionVars, story_title, formVars, msgs, genVars, historyVars,
                   submitVars>>

NextJson == ExtractJson

SpecJson == InitJson /\ [][NextJson]_vars

(***************************************************************************)
(* The submit handler (lines 219-433), one action per step.                *)
(***************************************************************************)
\* Parts a template may hold, in document order.
Segments ==
    << <<"<title>">> \o Placeholder("pagetitle") \o <<"</title>">>
         \o Placeholder("user") \o Placeholder("userprofileurl")
         \o Placeholder("publishedtime") \o Placeholder("modifiedtime")
         \o Placeholder("storytitle") \o Placeholder("metadescription")
         \o Placeholder("metakeywords") \o Placeholder("contenttype")
         \o Placeholder("lang") \o Placeholder("canurl") \o Placeholder("canurl1"),
       <<SrcAttr>> \o Placeholder("image0") \o <<Quote>>
         \o <<HrefAttr>> \o Placeholder("potraitcoverurl") \o <<Quote>>
         \o <<ContentAttr>> \o Placeholder("msthumbnailcoverurl") \o <<Quote>>,
       <<HrefAttr, "{", "https://", "x", "}", Quote,
         SrcAttr, "{", "https://", "y", "}", Quote,
         HrefAttr, "https://", "z", Quote>>,
       <<HeadClose>>,
       <<StoryOpen>>,
       AnalyticsTag >>

\* a template may lack this many of the parts
MaxMissingSegs == 1

RECURSIVE Concat(_, _, _)
Concat(segs, keep, i) ==
    IF i > Len(segs) THEN <<>>
    ELSE (IF i \in keep THEN segs[i] ELSE <<>>) \o Concat(segs, keep, i + 1)

\* contents of templates/masterregex.html the model draws from
Templates ==
    {Concat(Segments, keep, 1) :
        keep \in {k \in SUBSET (1..Len(Segments)) :
                    Cardinality(k) >= Len(Segments) - MaxMissingSegs}}
FullTemplate == Concat(Segments, 1..Len(Segments), 1)

StyleParts ==
    { <<>>,
      <<StyleOpen, "css", StyleClose>>,
      <<StyleOpen, HrefAttr, "{", "https://", "s", "}", Quote, StyleClose>> }
PageParts ==
    { <<>>,
      <<PageOpen, "pg">>,
      <<"pg", PageClose>>,
      <<PageClose, "pg", PageOpen>>,
      <<PageOpen, "pg", PageClose>>,
      <<PageOpen, SrcAttr, "{", "https://", "p", "}", Quote, PageClose>>,
      <<PageOpen>> \o Placeholder("storytitle") \o <<PageClose>> }
\* decoded contents of the uploaded raw HTML file
PlainStyle == <<StyleOpen, "css", StyleClose>>
PlainPage == <<PageOpen, "pg", PageClose>>
PlainFile == PlainStyle \o <<"<body>">> \o PlainPage
UploadedFiles ==
    {st \o <<"<body>">> \o PlainPage : st \in StyleParts}
    \cup {PlainStyle \o <<"<body>">> \o pg : pg \in PageParts}
    \cup {<<"<body>">>}

\* image URLs with an allowed extension: on the document host, on the media
\* host, elsewhere
NamedImageUrls ==
    { <<"https://", "stories.suvichaar.org", "/", "media", "/", "a", ".jpg">>,
      <<"https://", "media.suvichaar.org", "/", "media", "/", "a", ".png">>,
      <<"https://", "example.com", "/", "a", ".gif">> }
ImageUrls == NamedImageUrls \cup {<<"https://", "example.com", "/", "a">>}

GoodTitle == <<"A", " ", "b">>

\* the operator has pressed Submit (line 219)
InitSubmit ==
    /\ pc = "submit"
    /\ SessionDefaults
    /\ msgs = <<>>
    /\ NoHistory
    /\ json_out = NoJson
    /\ SubmitIdle
    /\ content_type = "News" /\ language = "en-US" /\ categories = "Art"
    /\ \/ /\ story_title \in {<<>>, <<" ">>, GoodTitle}
          /\ meta_description \in {<<>>, <<"desc">>}
          /\ meta_keywords \in {<<>>, <<"kw">>}
          /\ tag_input \in {<<>>, <<"t1", ",", " ", "t2">>}
          /\ image_url \in ImageUrls \cup {<<>>}
          /\ html_file \in {NoFile, PlainFile}
          /\ template_file = FullTemplate
       \/ /\ story_title = GoodTitle
          /\ meta_description = <<"desc">>
          /\ meta_keywords = <<"kw">>
          /\ tag_input = <<"t1", ",", " ", "t2">>
          /\ image_url \in NamedImageUrls
          /\ html_file \in UploadedFiles
          /\ template_file \in Templates

\* lines 220-241
Validate ==
    /\ pc = "submit"
    /\ LET missing == MissingFields(story_title, meta_description, meta_keywords,
                                    content_type, language, image_url, tag_input,
                                    categories, html_file)
       IN  /\ missing_fields' = missing
           /\ msgs' = IF missing # <<>>
                      THEN Append(msgs, Msg("error", "Please fill all required fields", missing))
                      ELSE Append(msgs, Msg("write", "Submitted Data", <<>>))
    /\ pc' = "ids"
    /\ UNCHANGED <<sessionVars, story_title, formVars, genVars, historyVars, json_out,
                   template_file, idVars, imageVars, composeVars, worldVars, status>>

\* lines 243-251
GenerateIds ==
    /\ pc = "ids"
    /\ key_path' = DefaultKeyPath
    /\ uploaded_url' = <<>>
    /\ \E random_chars \in RandomChoices :
         LET g == generate_slug_and_urls(story_title, random_chars) IN
         /\ nano' = g.nano
         /\ slug_nano' = g.slug_nano
         /\ canurl' = g.canurl
         /\ canurl1' = g.canurl1
         /\ IF g.raised
            THEN /\ page_title' = <<>>
                 /\ msgs' = Append(msgs, Msg("error", "Error generating canonical URLs", <<>>))
            ELSE /\ page_title' = story_title \o <<" | Suvichaar">>
                 /\ UNCHANGED msgs
    /\ pc' = "image"
    /\ UNCHANGED <<sessionVars, story_title, formVars, genVars, historyVars, json_out,
                   template_file, missing_fields, composeVars, worldVars, status>>

\* lines 253-282
ImageHandling ==
    /\ pc = "image"
    /\ \E outcome \in ImageOutcomes :
         LET r == ImageResult(image_url, outcome) IN
         /\ uploaded_url' = r.uploaded_url
         /\ key_path' = r.key_path
         /\ s3_objects' = s3_objects \cup r.put
         /\ fetched' = IF r.requested THEN fetched \cup {image_url} ELSE fetched
         /\ msgs' = msgs \o r.shown
         /\ status' = [status EXCEPT !.image = r.status]
    /\ pc' = "compose"
    /\ UNCHANGED <<sessionVars, story_title, formVars, genVars, historyVars, json_out,
                   template_file, missing_fields, idVars, composeVars, zip_file>>

ProcessingError == Msg("error", "Error processing HTML", <<>>)

\* lines 284-342: read the template, substitute, clean up
Substitute ==
    /\ pc = "compose"
    /\ \E open_ok \in BOOLEAN, user \in Users :
         IF open_ok
         THEN /\ selected_user' = user
              /\ html_template' =
                    Cleanup(SubstituteImages(
                        SubstituteFields(template_file, user, story_title,
                                         meta_description, meta_keywords, content_type,
                                         language, page_title, canurl, canurl1),
                        image_url))
              /\ pc' = "splice"
              /\ UNCHANGED <<msgs, status>>
         ELSE /\ msgs' = Append(msgs, ProcessingError)
              /\ status' = [status EXCEPT !.compose = "failed"]
              /\ pc' = "done"
              /\ UNCHANGED <<selected_user, html_template>>
    /\ UNCHANGED <<sessionVars, story_title, formVars, genVars, historyVars, json_out,
                   template_file, missing_fields, idVars, imageVars, extracted_style,
                   extracted_amp_story, worldVars>>

\* lines 344-385: extract the two fragments and splice them in
Splice ==
    /\ pc = "splice"
    /\ LET style == IF html_file = NoFile THEN <<>> ELSE ExtractStyle(html_file)
           story == IF html_file = NoFile THEN <<>> ELSE ExtractAmpStory(html_file)
       IN  /\ extracted_style' = style
           /\ extracted_amp_story' = story
           /\ html_template' = InsertStory(InsertStyle(html_template, style), story)
           /\ msgs' = msgs \o SpliceMessages(html_file, html_template, style, story)
    /\ status' = [status EXCEPT !.compose = "ok"]
    /\ pc' = "store"
    /\ UNCHANGED <<sessionVars, story_title, formVars, genVars, historyVars, json_out,
                   template_file, missing_fields, idVars, imageVars, selected_user,
                   worldVars>>

\* [tag.strip() for tag in tag_input.split(",") if tag.strip()]
FilterTagsList(tags) == Filter(tags, Range(tags) \ ({","} \cup Whitespace))

\* lines 388-402 (no custom cover: cover_image_url is image_url)
MetadataDict ==
    [story_title |-> story_title,
     categories |-> CategoryMapping(categories),
     filterTags |-> FilterTagsList(tag_input),
     story_uid |-> nano,
     story_link |-> canurl,
     storyhtmlurl |-> canurl1,
     urlslug |-> slug_nano,
     cover_image_link |-> image_url,
     publisher_id |-> 1,
     keywords |-> meta_keywords,
     metadescription |-> meta_description,
     lang |-> language]

\* the object written by line 406
StoredDocument == [bucket |-> StoriesBucket, key |-> slug_nano \o <<".html">>,
                   body |-> html_template]

\* lines 404-415
StoreDocument ==
    /\ pc = "store"
    /\ \E put_ok \in BOOLEAN :
         IF put_ok
         THEN /\ s3_objects' = s3_objects \cup {StoredDocument}
              /\ msgs' = Append(msgs, Msg("success", "HTML uploaded successfully to S3", <<>>))
              /\ status' = [status EXCEPT !.store = "ok"]
              /\ pc' = "zip"
         ELSE /\ msgs' = Append(msgs, ProcessingError)
              /\ status' = [status EXCEPT !.store = "failed"]
              /\ pc' = "done"
              /\ UNCHANGED s3_objects
    /\ UNCHANGED <<sessionVars, story_title, formVars, genVars, historyVars, json_out,
                   template_file, missing_fields, idVars, imageVars, composeVars,
                   fetched, zip_file>>

\* lines 417-433
BuildArchive ==
    /\ pc = "zip"
    /\ \E zip_ok \in BOOLEAN :
         IF zip_ok
         THEN /\ zip_file' = <<[name |-> slug_nano \o <<".html">>, data |-> html_template],
                              [name |-> slug_nano \o <<"_metadata.json">>,
                               data |-> MetadataDict]>>
              /\ status' = [status EXCEPT !.zip = "ok"]
              /\ UNCHANGED msgs
         ELSE /\ msgs' = Append(msgs, ProcessingError)
              /\ status' = [status EXCEPT !.zip = "failed"]
              /\ UNCHANGED zip_file
    /\ pc' = "done"
    /\ UNCHANGED <<sessionVars, story_title, formVars, genVars, historyVars, json_out,
                   template_file, missing_fields, idVars, imageVars, composeVars,
                   s3_objects, fetched>>

NextSubmit ==
    \/ Validate
    \/ GenerateIds
    \/ ImageHandling
    \/ Substitute
    \/ Splice
    \/ StoreDocument
    \/ BuildArchive

SpecSubmit == InitSubmit /\ [][NextSubmit]_vars

(***************************************************************************)
(* generate_slug_and_urls on its own: line 247 applied to any short title. *)
(***************************************************************************)
TitleAlphabet == {"A", "b", "7", " ", "_", "-", "!"}
Titles == SeqsUpTo(TitleAlphabet, MaxTitleLen)

InitSlug ==
    /\ pc = "ids"
    /\ SessionDefaults
    /\ story_title \in Titles
    /\ BlankForm
    /\ msgs = <<>>
    /\ NoHistory
    /\ json_out = NoJson
    /\ template_file = <<>>
    /\ SubmitIdle

NextSlug == GenerateIds

SpecSlug == InitSlug /\ [][NextSlug]_vars

(***************************************************************************)
(* Properties.                                                             *)
(***************************************************************************)
MissingNow ==
    MissingFields(story_title, meta_description, meta_keywords, content_type,
                  language, image_url, tag_input, categories, html_file)

\* C1: a submission with a missing required field is rejected before any side
\* effect: the missing fields are reported (a missing Image URL as "Image URL"),
\* and no image is fetched, nothing is written to object storage and no archive
\* is built for it.
C1_RejectedBeforeSideEffects ==
    (pc # "submit" /\ MissingNow # <<>>) =>
        /\ \E i \in 1..Len(msgs) : msgs[i].kind = "error" /\ msgs[i].detail = MissingNow
        /\ (Blank(image_url) => "Image URL" \in Range(MissingNow))
        /\ fetched = {}
        /\ s3_objects = {}
        /\ zip_file = <<>>

SessionFieldsBlank ==
    /\ ss_meta_description = <<>>
    /\ ss_meta_keywords = <<>>
    /\ ss_generated_filter_tags = <<>>

\* C2: whenever metadata generation fails for the title just entered, a warning
\* is shown, the script goes on to the form, and the session's meta description,
\* meta keywords and filter tags are blank (not those of an earlier title).
C2_FailureLeavesFieldsBlank ==
    (pc \in {"form", "idle"} /\ gen_status = "failed") =>
        /\ Shown("warning", "Metadata generation failed")
        /\ SessionFieldsBlank

\* C3 (as amended): the endpoint is called once for every rerun whose title is
\* not blank and differs from the last non-blank title entered before it, and
\* in no other rerun: a blank or unchanged title makes no call, and a failed
\* call is not retried.  The calls made equal the title changes so far.
C3_OneCallPerTitleChange ==
    /\ calls <= reruns
    /\ pc # "generate" => calls = changes
    /\ pc = "generate" =>
          calls = changes - (IF ~Blank(story_title) /\ story_title # last_title
                             THEN 1 ELSE 0)

\* C3 witness: a title entered again after another one was called for again,
\* and a failed call was not repeated.
C3_Witness ==
    /\ pc = "idle"
    /\ calls = 3
    /\ Cardinality(entered) = 2
    /\ reruns = 4
    /\ gen_status = "none"

\* C3 (as stated): the calls never exceed the distinct non-blank titles entered.
C3_CallsBoundedByDistinctTitles == calls <= Cardinality(entered)

PlaceholderNames ==
    {"user", "userprofileurl", "publishedtime", "modifiedtime", "storytitle",
     "metadescription", "metakeywords", "contenttype", "lang", "pagetitle",
     "canurl", "canurl1", "image0", "potraitcoverurl", "msthumbnailcoverurl"}

HasPlaceholder(doc) == \E name \in PlaceholderNames : Contains(doc, Placeholder(name))

WellFormedSubmission ==
    /\ MissingNow = <<>>
    /\ LowerExt(Basename(UrlPath(image_url))) \in AllowedExts
    /\ ~HasPlaceholder(story_title)
    /\ ~HasPlaceholder(meta_description)
    /\ ~HasPlaceholder(meta_keywords)
    /\ ~HasPlaceholder(html_file)

Published == {o \in s3_objects : o.bucket = StoriesBucket}

\* C4: the published document of a well-formed submission (all fields filled, an
\* image URL with an allowed extension on any host, no placeholder text in the
\* inputs) contains none of the recognized placeholder tokens.
C4_NoPlaceholderRemains ==
    WellFormedSubmission => \A o \in Published : ~HasPlaceholder(o.body)

IdsOfTitle ==
    /\ \A i \in 1..NanoLen : nano[i] \in Range(NanoAlphabet)
    /\ slug_nano = Slugify(story_title) \o <<"_">> \o nano
    /\ canurl = StoriesPage \o slug_nano
    /\ canurl1 = StoriesHost \o slug_nano \o <<".html">>

\* C5 (as amended): for every non-empty title the random suffix is 12
\* characters long (10 random characters from letters, digits, underscore and
\* hyphen, then the two-character marker "_G"), the composite identifier is
\* slug + "_" + suffix, and both URLs embed exactly that identifier.
C5_SuffixIsTwelveLong ==
    (pc = "image" /\ story_title # <<>>) =>
        /\ Len(nano) = 12
        /\ SubSeq(nano, NanoLen + 1, Len(nano)) = <<"_", "G">>
        /\ IdsOfTitle

\* C5 witness: the identifiers of the title "A_", whose slug is "a".
C5_Witness ==
    /\ pc = "image"
    /\ story_title = <<"A", "_">>
    /\ Len(nano) = 12
    /\ SubSeq(slug_nano, 1, 2) = <<"a", "_">>

\* C5 (as stated): the suffix is 11 characters long, 10 random ones and one
\* marker character.
C5_SuffixIsElevenLong ==
    (pc = "image" /\ story_title # <<>>) =>
        /\ Len(nano) = 11
        /\ IdsOfTitle

\* the three response shapes
FencedShape(text) == FencedSearch(text).matched
ProseObjectShape(text) ==
    /\ "<fence json>" \notin Range(text)
    /\ \E b, e \in 1..Len(text) : b < e /\ text[b] = "{" /\ text[e] = "}"
PlainShape(text) ==
    /\ text # <<>>
    /\ Range(text) \cap {"<fence json>", "<fence>", "{", "}"} = {}

\* C6: extract_json_block returns a value, and raises nothing, for each of the
\* three shapes: a fenced object (its content), an object embedded in prose
\* (that brace-delimited object), plain text without braces (the text stripped).
C6_ThreeShapesReturn ==
    pc = "extracted" =>
        /\ (FencedShape(raw) \/ ProseObjectShape(raw) \/ PlainShape(raw))
              => ~json_out.raised
        /\ ProseObjectShape(raw) =>
              /\ json_out.value # <<>>
              /\ Head(json_out.value) = "{"
              /\ json_out.value[Len(json_out.value)] = "}"
        /\ PlainShape(raw) => json_out.value = Strip(raw)

NoStoryBlock(file) ==
    \/ Find(file, <<PageOpen>>) = 0
    \/ RFind(file, <<PageClose>>) = 0
    \/ RFind(file, <<PageClose>>) < Find(file, <<PageOpen>>)

\* C7: when no story-page block is extracted from the uploaded HTML (no opening
\* literal, no closing literal, or the last closing before the first opening),
\* composition goes on, a warning about the block is shown, and the document
\* that is stored lacks the block.
C7_MissingStoryBlockWarns ==
    (pc \in {"store", "zip", "done"} /\ status.compose = "ok"
        /\ html_file # NoFile /\ NoStoryBlock(html_file)) =>
        /\ \/ Shown("warning", "No complete <amp-story> block found")
           \/ Shown("warning", "Could not find insertion points")
        /\ ~Contains(html_template, <<PageOpen>>)
        /\ status.store = "ok" => StoredDocument \in s3_objects

\* occurrences of attr="{https://...}" with attr href or src
WrappedCount(doc) ==
    Cardinality({i \in 1..Len(doc) :
                    WrappedAt(doc, i, HrefAttr) \/ WrappedAt(doc, i, SrcAttr)})
\* occurrences of attr="https://... with attr href or src
PlainCount(doc) ==
    Cardinality({i \in 1..Len(doc) :
                    /\ doc[i] \in {HrefAttr, SrcAttr}
                    /\ MatchAt(doc, i + 1, <<"https://">>)})

\* the template after lines 305-338, before the cleanup
Substituted ==
    SubstituteImages(
        SubstituteFields(template_file, selected_user, story_title, meta_description,
                         meta_keywords, content_type, language, page_title, canurl,
                         canurl1),
        image_url)

StyleSpliced == extracted_style # <<>> /\ ~Shown("warning", "No </head> tag found")
StorySpliced ==
    extracted_amp_story # <<>> /\ ~Shown("warning", "Could not find insertion points")

\* C8 (as amended): the cleanup runs after the placeholder substitution and
\* before the fragments are spliced in.  It rewrites every attr="{https://U}"
\* of the substituted template to attr="https://U" and changes nothing else;
\* the style and story-page fragments are spliced in as uploaded, so the
\* published and archived document holds exactly the brace-wrapped attributes
\* of the fragments spliced into it.
C8_CleanupBeforeSplice ==
    /\ pc = "splice" =>
          LET before == Substituted
              wrapped == WrappedCount(before)
          IN  /\ WrappedCount(html_template) = 0
              /\ PlainCount(html_template) = PlainCount(before) + wrapped
              /\ Len(html_template) = Len(before) - 2 * wrapped
    /\ \A o \in Published :
          WrappedCount(o.body) =
              (IF StyleSpliced THEN WrappedCount(extracted_style) ELSE 0)
              + (IF StorySpliced THEN WrappedCount(extracted_amp_story) ELSE 0)
    /\ status.zip = "ok" => \A o \in Published : zip_file[1].data = o.body

\* C8 witness: a template with brace-wrapped attributes, all rewritten, published
\* with a fragment that brought one of its own.
C8_Witness ==
    /\ status.zip = "ok"
    /\ WrappedCount(Substituted) >= 2
    /\ WrappedCount(html_template) = 1
    /\ StoredDocument \in s3_objects

\* C8 (as stated): no href or src of the published document is brace-wrapped,
\* those of the spliced fragments included.
C8_NoWrappedAttrPublished == \A o \in Published : WrappedCount(o.body) = 0

\* C9: a failed image fetch or image store for a URL off the document host is
\* caught where it happens: a warning is shown, the public image URL is empty,
\* nothing is stored for the image, and the pipeline goes on: the template is
\* composed, and unless a later step fails the document is stored and the
\* archive built.
C9_ImageFailureIsNonFatal ==
    status.image = "failed" =>
        /\ ~StartsWith(image_url, StoriesHost)
        /\ Shown("warning", "Failed to fetch/upload image")
        /\ uploaded_url = <<>>
        /\ \A o \in s3_objects : o.bucket # MediaBucket
        /\ pc \in {"compose", "splice", "store", "zip", "done"}
        /\ pc = "done" => status.compose # "none"
        /\ (pc = "done" /\ ~Shown("error", "Error processing HTML")) =>
              /\ StoredDocument \in s3_objects
              /\ Len(zip_file) = 2

\* C9 witness: the image could not be fetched or stored, and the submission
\* still ended with the document stored and the archive built.
C9_Witness ==
    /\ pc = "done"
    /\ status.image = "failed"
    /\ status.store = "ok"
    /\ status.zip = "ok"
    /\ StoredDocument \in s3_objects

\* C10: the document is stored before the archive is built, and the first
\* failure ends the submission without rollback: a failed store leaves exactly
\* one error, no success message and no archive; a failed archive after a
\* successful store leaves one error and the stored document in place.
C10_FirstFailureEndsSubmission ==
    /\ status.zip # "none" => status.store = "ok"
    /\ status.store = "failed" =>
          /\ pc = "done"
          /\ CountKind("error") = 1
          /\ ~Shown("success", "HTML uploaded successfully to S3")
          /\ zip_file = <<>>
    /\ (status.store = "ok" /\ status.zip = "failed") =>
          /\ pc = "done"
          /\ CountKind("error") = 1
          /\ StoredDocument \in s3_objects

====
